---- MODULE Spec2Model ----
(***************************************************************************)
(* State-machine model of the openclaw-langsmith plugin:                   *)
(*   src/src/client.ts  LangSmithClient  (the batch submission queue)      *)
(*   src/src/tracer.ts  Tracer           (the run registry)                *)
(*   src/src/index.ts   register         (hooks, engram slot, service)     *)
(*   src/src/config.ts  parseConfig                                        *)
(* Strings are sequences of one-character strings, so that split, replace  *)
(* and template concatenation are computed rather than assumed.            *)
(***************************************************************************)
EXTENDS Integers, Sequences, FiniteSets, TLC

VARIABLES
  batchMaxSize,     \* LangSmithClient.batchMaxSize (from parseConfig)
  queue,            \* LangSmithClient.queue : Seq of BatchOp
  timer,            \* LangSmithClient.timer # null
  requests,         \* every fetch issued so far: Seq of [batch, state]
  activeAgentRuns,  \* Tracer.activeAgentRuns : sessionKey -> ActiveRun
  activeToolRuns,   \* Tracer.activeToolRuns  : key -> ActiveRun
  sessionModels,    \* Tracer.sessionModels   : sessionKey -> Seq of ModelInfo
  usedIds,          \* values crypto.randomUUID() has returned
  clock,            \* the process clock, in milliseconds
  slot,             \* globalThis.__openclawEngramTrace is installed
  svc,              \* the service: registered, running, stopping or stopped
  stopReq,          \* the request the service's stop() is awaiting (0: none)
  nOps,             \* BatchOps pushed so far (each op's identity)
  ev,               \* the callback that ran last, with its arguments
  raised            \* the step that ran last let an error escape to its caller

vars == <<batchMaxSize, queue, timer, requests, activeAgentRuns, activeToolRuns,
          sessionModels, usedIds, clock, slot, svc, stopReq, nOps, ev, raised>>

clientVars == <<queue, requests, nOps>>
tracerVars == <<activeAgentRuns, activeToolRuns, sessionModels>>

----------------------------------------------------------------------------
(* Bounds of the model *)

\* BatchOps pushed in one run of the batch queue's model
MaxOps == 3
\* BatchOps pushed in one run of the run registry's model
MaxSpanOps == 4
\* identifiers crypto.randomUUID() returns in the queue's and the registry's models
MaxRuns == 2
\* identifiers crypto.randomUUID() can return
MaxIds == 3
\* last reading of the millisecond clock
MaxClock == 1
\* entries recordLlmCall may append to one session's ledger
MaxLedger == 1
\* entries recordLlmCall may append to the ledger of one turn
MaxTurnLedger == 3

----------------------------------------------------------------------------
(* Optional values (undefined | T) are sets of at most one element; maps    *)
(* are functions whose domain is the set of keys present.                   *)

Absent == {}
Some(x) == {x}
Get(o) == CHOOSE x \in o : TRUE
\* a ?? b
Coalesce(a, b) == IF a # Absent THEN a ELSE b

EmptyMap == [k \in {} |-> {}]
MapSet(m, key, v) == [k \in DOMAIN m \cup {key} |-> IF k = key THEN v ELSE m[k]]
MapDelete(m, key) == [k \in DOMAIN m \ {key} |-> m[k]]
MapGet(m, key) == IF key \in DOMAIN m THEN Some(m[key]) ELSE Absent

----------------------------------------------------------------------------
(* Strings *)

RECURSIVE Join(_, _)
\* parts.join(sep)
Join(parts, sep) ==
  IF parts = <<>> THEN <<>>
  ELSE IF Len(parts) = 1 THEN parts[1]
  ELSE parts[1] \o sep \o Join(Tail(parts), sep)

\* s.replace(/c/g, "")
RemoveChar(s, c) == SelectSeq(s, LAMBDA x : x # c)

Digit(n) == <<"0", "1", "2", "3", "4", "5", "6", "7", "8", "9">>[n + 1]

RECURSIVE Pad(_, _)
\* n.toString().padStart(len, "0") for n < 10^len
Pad(n, len) == IF len = 0 THEN <<>> ELSE Pad(n \div 10, len - 1) \o <<Digit(n % 10)>>

HexChars == <<"a", "b", "c", "d", "e", "f">>

\* the strings crypto.randomUUID() draws from: hex groups joined by "-"
RandomUUIDs == { <<HexChars[i], "-", HexChars[i]>> : i \in 1..MaxIds }

\* the identifiers drawn in the queue's and the registry's models
UUIDs == { <<HexChars[i], "-", HexChars[i]>> : i \in 1..MaxRuns }

\* trace identifiers the engram side channel supplies
TraceIds == { <<"t">> }

\* `llm:${traceId}`
LlmKey(traceId) == <<"l", "l", "m", ":">> \o traceId

\* (ctx?.sessionKey as string) ?? "default"
SessionKeyOf(ctxKey) == Get(Coalesce(ctxKey, Some(<<"d", "e", "f", "a", "u", "l", "t">>)))

\* ctx.sessionKey as the host passes it
CtxSessionKeys == { Absent, Some(<<"s">>) }

SessionKeys == { SessionKeyOf(k) : k \in CtxSessionKeys }

\* event.prompt as the host passes it
Prompts == { Absent, Some(<<>>), Some(<<"h", "i">>) }

----------------------------------------------------------------------------
(* config.ts *)

DefaultBatchMaxSize == 20

\* (r.batchMaxSize as number) || 20, with 0 for an option that is not set
ParseBatchMaxSize(raw) == IF raw = 0 THEN DefaultBatchMaxSize ELSE raw

\* values of the batchMaxSize option in the plugin configuration: not set, a
\* positive size, and a negative number (parseConfig validates nothing)
RawBatchMaxSizes == { 0, 2, -1 }

\* process.env: the variables that are set, with their values
Envs ==
  { EmptyMap,
    [v \in {"KEY"} |-> <<"v">>],
    [v \in {"LANGSMITH_API_KEY"} |-> <<"e">>],
    [v \in {"LANGSMITH_API_KEY"} |-> <<>>] }

\* a configured string: parts that are literal text or a reference ${text}
Part(isVar, text) == [isVar |-> isVar, text |-> text]

\* values of the langsmithApiKey option in the plugin configuration
RawApiKeys ==
  { Absent, Some(<<>>), Some(<<Part(FALSE, <<"k">>)>>), Some(<<Part(TRUE, "KEY")>>) }

RECURSIVE Substitute(_, _)
\* value.replace(/\$\{([^}]+)\}/g, (_, name) => process.env[name] ?? "")
Substitute(parts, env) ==
  IF parts = <<>> THEN <<>>
  ELSE (IF Head(parts).isVar
        THEN (IF Head(parts).text \in DOMAIN env THEN env[Head(parts).text] ELSE <<>>)
        ELSE Head(parts).text) \o Substitute(Tail(parts), env)

\* resolveEnvVars(value)
ResolveEnvVars(value, env) ==
  IF value = Absent \/ Get(value) = <<>> THEN value ELSE Some(Substitute(Get(value), env))

\* a || b for optional strings: b when a is undefined or empty
OrElse(a, b) == IF a # Absent /\ Get(a) # <<>> THEN a ELSE b

\* langsmithApiKey of parseConfig (lines 10 and 13)
ParseApiKey(raw, env) ==
  OrElse(OrElse(ResolveEnvVars(raw, env), MapGet(env, "LANGSMITH_API_KEY")), Absent)

----------------------------------------------------------------------------
(* tracer.ts: the ordering key *)

\* new Date().toISOString(), within the minute the model's clock covers:
\* seconds "." milliseconds "Z"
IsoTime(ms) == Pad(ms \div 1000, 2) \o <<".">> \o Pad(ms % 1000, 3) \o <<"Z">>

\* formatDottedOrderTime, within the minute the model's clock covers:
\* pad(seconds) pad(milliseconds, 3) "000Z"
FormatDottedOrderTime(ms) ==
  Pad(ms \div 1000, 2) \o Pad(ms % 1000, 3) \o <<"0", "0", "0", "Z">>

\* makeDottedOrder(runId, parentDottedOrder) at clock reading ms
MakeDottedOrder(ms, runId, parentDottedOrder) ==
  LET ts == FormatDottedOrderTime(ms)
      cleanId == RemoveChar(runId, "-")
  IN  IF parentDottedOrder # Absent /\ Get(parentDottedOrder) # <<>>
      THEN Get(parentDottedOrder) \o <<".">> \o ts \o cleanId
      ELSE ts \o cleanId

----------------------------------------------------------------------------
(* client.ts: LangSmithClient *)

\* a BatchOp; n is the object's identity (the count of pushes when it was made)
BatchOp(n, method, path, body) ==
  [n |-> n, method |-> method, path |-> path, body |-> body]

\* a batch made of the record pushed last alone
SpliceTakenLast(q) == <<q[Len(q)]>>

\* const batch = this.queue.splice(0): the elements removed
SpliceTaken(q) == q
\* this.queue after splice(0)
SpliceLeft(q) == <<>>

\* the body of the POST to /runs/batch built from a batch (lines 52-69)
BatchBody(batch) ==
  [post  |-> SelectSeq(batch, LAMBDA o : o.method = "POST"),
   patch |-> SelectSeq(batch, LAMBDA o : o.method # "POST")]

\* flush() that copies the buffer for its request and leaves it in place
FlushWithoutSplice(q, reqs) ==
  IF Len(q) = 0
  THEN [queue |-> q, requests |-> reqs]
  ELSE [queue    |-> q,
        requests |-> Append(reqs, [body |-> BatchBody(q), state |-> "pending"])]

\* flush() without the test of line 46
FlushNoEmptyCheck(q, reqs) ==
  [queue    |-> <<>>,
   requests |-> Append(reqs, [body |-> BatchBody(q), state |-> "pending"])]

\* flush() that sends nothing while a request it issued has not settled
FlushWhenIdle(q, reqs) ==
  IF Len(q) = 0 \/ \E i \in DOMAIN reqs : reqs[i].state = "pending"
  THEN [queue |-> q, requests |-> reqs]
  ELSE [queue    |-> <<>>,
        requests |-> Append(reqs, [body |-> BatchBody(q), state |-> "pending"])]

\* flush() whose caller gets control back only when fetch has settled
FlushAwaited(q, reqs) ==
  IF Len(q) = 0
  THEN [queue |-> q, requests |-> reqs]
  ELSE [queue    |-> <<>>,
        requests |-> Append(reqs, [body |-> BatchBody(q), state |-> "sent"])]

\* flush() up to its await: the queue left behind and the requests issued
Flush(q, reqs) ==
  IF Len(q) = 0
  THEN [queue |-> q, requests |-> reqs]
  ELSE [queue    |-> SpliceLeft(q),
        requests |-> Append(reqs, [body  |-> BatchBody(SpliceTaken(q)),
                                   state |-> "pending"])]

\* the size test with > for >=
ReachedMaxStrict(len, max) == len > max

\* the size test of createRun / updateRun
ReachedMax(len, max) == len >= max

\* createRun / updateRun: push, then flush when the queue reached batchMaxSize
Push(q, reqs, op) ==
  LET q1 == Append(q, op)
  IN  IF ReachedMax(Len(q1), batchMaxSize) THEN Flush(q1, reqs)
      ELSE [queue |-> q1, requests |-> reqs]

\* createRun(run)
CreateRun(run) ==
  LET r == Push(queue, requests, BatchOp(nOps + 1, "POST", <<"/", "r", "u", "n", "s">>, run))
  IN  /\ queue' = r.queue
      /\ requests' = r.requests
      /\ nOps' = nOps + 1

\* updateRun(runId, patch)
UpdateRun(runId, patch) ==
  LET r == Push(queue, requests,
                BatchOp(nOps + 1, "PATCH", <<"/", "r", "u", "n", "s", "/">> \o runId, patch))
  IN  /\ queue' = r.queue
      /\ requests' = r.requests
      /\ nOps' = nOps + 1

\* the fields of a LangSmithRun (or of a patch) the model keeps, all unset
EmptyRun ==
  [id |-> <<>>, trace_id |-> <<>>, dotted_order |-> <<>>, run_type |-> Absent,
   parent_run_id |-> Absent, start_time |-> Absent, end_time |-> Absent,
   tokens |-> Absent, usage_metadata |-> Absent, error |-> Absent,
   prompt |-> Absent, messages |-> Absent, model |-> Absent, all_models |-> <<>>,
   sessionKey |-> Absent, tags |-> <<>>]

----------------------------------------------------------------------------
(* index.ts: extractUsageFromMessages *)

\* typeof v === "number" ? v : 0
NumOr0(v) == IF v = Absent THEN 0 ELSE Get(v)

\* the test without the role check of line 17
IsUsageMessageAnyRole(m) == m.usage # Absent

\* a message counts when it is an assistant message carrying usage
IsUsageMessage(m) == m.role = "assistant" /\ m.usage # Absent

\* the TokenUsage built from a message's usage (lines 23-35)
UsageOf(usage) ==
  LET input == NumOr0(usage.input)
      output == NumOr0(usage.output)
      cacheRead == NumOr0(usage.cacheRead)
      cacheWrite == NumOr0(usage.cacheWrite)
  IN  [prompt_tokens |-> Absent, completion_tokens |-> Absent,
       input_tokens  |-> Some(input + cacheRead + cacheWrite),
       output_tokens |-> Some(output),
       total_tokens  |-> Some(input + output + cacheRead + cacheWrite)]

\* a scan from the first message on: the first assistant message with usage wins
ScanMessagesForward(list, i) ==
  LET hits == { j \in 1..i : list[j].role = "assistant" /\ list[j].usage # Absent }
  IN  IF hits = {} THEN Absent
      ELSE LET first == CHOOSE j \in hits : \A h \in hits : j <= h
           IN  Some([prompt_tokens |-> Absent, completion_tokens |-> Absent,
                     input_tokens  |-> Some(NumOr0(Get(list[first].usage).input)
                                            + NumOr0(Get(list[first].usage).cacheRead)
                                            + NumOr0(Get(list[first].usage).cacheWrite)),
                     output_tokens |-> Some(NumOr0(Get(list[first].usage).output)),
                     total_tokens  |-> Some(NumOr0(Get(list[first].usage).input)
                                            + NumOr0(Get(list[first].usage).output)
                                            + NumOr0(Get(list[first].usage).cacheRead)
                                            + NumOr0(Get(list[first].usage).cacheWrite))])

RECURSIVE ScanMessages(_, _)
\* the loop of extractUsageFromMessages, from index i down to 1
ScanMessages(list, i) ==
  IF i = 0 THEN Absent
  ELSE IF IsUsageMessage(list[i]) THEN Some(UsageOf(Get(list[i].usage)))
  ELSE ScanMessages(list, i - 1)

\* extractUsageFromMessages(messages)
ExtractUsageFromMessages(messages) ==
  IF ~messages.isArray THEN Absent ELSE ScanMessages(messages.list, Len(messages.list))

----------------------------------------------------------------------------
(* tracer.ts: parseModelInfo *)

\* model.startsWith(prefix)
StartsWith(str, prefix) ==
  Len(str) >= Len(prefix) /\ SubSeq(str, 1, Len(prefix)) = prefix

\* model.includes("/")
Includes(str, c) == \E i \in 1..Len(str) : str[i] = c

\* index of the first occurrence of c in str (0: none)
IndexOf(str, c) ==
  IF Includes(str, c) THEN CHOOSE i \in 1..Len(str) : str[i] = c /\ \A j \in 1..(i - 1) : str[j] # c
  ELSE 0

RECURSIVE Split(_, _)
\* str.split(c)
Split(str, c) ==
  LET i == IndexOf(str, c)
  IN  IF i = 0 THEN <<str>>
      ELSE <<SubSeq(str, 1, i - 1)>> \o Split(SubSeq(str, i + 1, Len(str)), c)

\* the prefix table of parseModelInfo (lines 35-46)
InferProvider(model) ==
  IF StartsWith(model, <<"c", "l", "a", "u", "d", "e">>) THEN <<"a", "n", "t", "h", "r", "o", "p", "i", "c">>
  ELSE IF \/ StartsWith(model, <<"g", "p", "t", "-">>)
          \/ StartsWith(model, <<"o", "1">>)
          \/ StartsWith(model, <<"o", "3">>) THEN <<"o", "p", "e", "n", "a", "i">>
  ELSE IF StartsWith(model, <<"g", "e", "m", "i", "n", "i">>) THEN <<"g", "o", "o", "g", "l", "e">>
  ELSE IF StartsWith(model, <<"g", "l", "m">>) THEN <<"z", "a", "i">>
  ELSE IF StartsWith(model, <<"k", "i", "m", "i">>) THEN <<"k", "i", "m", "i">>
  ELSE <<"u", "n", "k", "n", "o", "w", "n">>

\* parseModelInfo with the "/" rule ahead of the explicit provider
ParseModelInfoSlashFirst(model, provider) ==
  IF Includes(model, "/")
  THEN LET parts == Split(model, "/")
       IN  [provider |-> parts[1], model |-> Join(Tail(parts), <<"/">>)]
  ELSE IF provider # Absent /\ Get(provider) # <<>>
  THEN [provider |-> Get(provider), model |-> model]
  ELSE [provider |-> InferProvider(model), model |-> model]

\* parseModelInfo(model, provider)
ParseModelInfo(model, provider) ==
  IF provider # Absent /\ Get(provider) # <<>>
  THEN [provider |-> Get(provider), model |-> model]
  ELSE IF Includes(model, "/")
  THEN LET parts == Split(model, "/")
       IN  [provider |-> parts[1], model |-> Join(Tail(parts), <<"/">>)]
  ELSE [provider |-> InferProvider(model), model |-> model]

----------------------------------------------------------------------------
(* tracer.ts: extractTags *)

\* \s, for the characters the model's prompts are made of
IsSpace(c) == c = " "

\* str has lit at position i
MatchesAt(str, i, lit) ==
  i + Len(lit) - 1 <= Len(str) /\ SubSeq(str, i, i + Len(lit) - 1) = lit

\* the first position from i on where a character satisfies Test (Len + 1: none)
FirstFrom(str, i, Test(_)) ==
  LET hits == { k \in i..Len(str) : Test(str[k]) }
  IN  IF hits = {} THEN Len(str) + 1 ELSE CHOOSE k \in hits : \A h \in hits : k <= h

RECURSIVE Trim(_)
\* str.trim()
Trim(str) ==
  IF str = <<>> THEN str
  ELSE IF IsSpace(Head(str)) THEN Trim(Tail(str))
  ELSE IF IsSpace(str[Len(str)]) THEN Trim(SubSeq(str, 1, Len(str) - 1))
  ELSE str

\* group 1 of /\[cron:[^\s]+\s+([^\(]+)\s*\(/ matched at position i: the id
\* is the run of non-spaces after "[cron:", the spaces after it are taken
\* greedily but for one given back when "(" follows them, and the group runs
\* up to the next "("
CronMatchAt(str, i) ==
  LET j == i + 6
      a == FirstFrom(str, j, IsSpace)
      bmax == FirstFrom(str, a, LAMBDA c : ~IsSpace(c))
      b == IF bmax <= Len(str) /\ str[bmax] # "(" THEN bmax ELSE bmax - 1
      q == FirstFrom(str, b, LAMBDA c : c = "(")
  IN  IF /\ MatchesAt(str, i, <<"[", "c", "r", "o", "n", ":">>)
         /\ a > j /\ a <= Len(str) /\ b > a /\ q <= Len(str) /\ q > b
      THEN Some(SubSeq(str, b, q - 1))
      ELSE Absent

\* group 1 of /\[Discord Guild (#[^\s]+)/ matched at position i
GuildMatchAt(str, i) ==
  LET h == i + 15
      e == FirstFrom(str, h + 1, IsSpace)
  IN  IF MatchesAt(str, i, <<"[", "D", "i", "s", "c", "o", "r", "d", " ", "G", "u", "i", "l", "d", " ">> \o <<"#">>) /\ e > h + 1
      THEN Some(SubSeq(str, h, e - 1))
      ELSE Absent

\* group 1 of the leftmost match of str.match(...), undefined without match
FirstMatch(str, MatchAt(_, _)) ==
  LET hits == { i \in 1..Len(str) : MatchAt(str, i) # Absent }
  IN  IF hits = {} THEN Absent
      ELSE MatchAt(str, CHOOSE i \in hits : \A h \in hits : i <= h)

\* parts[i], undefined beyond the end
PartAt(parts, i) == IF i \in DOMAIN parts THEN Some(parts[i]) ELSE Absent

\* parts.indexOf(x) + 1 (0: none)
IndexOfPart(parts, x) ==
  LET hits == { i \in DOMAIN parts : parts[i] = x }
  IN  IF hits = {} THEN 0 ELSE CHOOSE i \in hits : \A h \in hits : i <= h

\* a chain that tags every source the key names
SourceTagsAll(parts) ==
  SelectSeq(<<<<"c", "r", "o", "n">>, <<"d", "i", "s", "c", "o", "r", "d">>, <<"t", "e", "l", "e", "g", "r", "a", "m">>, <<"s", "l", "a", "c", "k">>>>, LAMBDA t : IndexOfPart(parts, t) > 0)

\* the source tags of extractTags (lines 56-73)
SourceTags(parts) ==
  IF IndexOfPart(parts, <<"c", "r", "o", "n">>) > 0
  THEN LET job == PartAt(parts, IndexOfPart(parts, <<"c", "r", "o", "n">>) + 1)
       IN  <<<<"c", "r", "o", "n">>>> \o (IF job # Absent /\ Get(job) # <<>>
                        THEN <<<<"j", "o", "b", ":">> \o Get(job)>> ELSE <<>>)
  ELSE IF IndexOfPart(parts, <<"d", "i", "s", "c", "o", "r", "d">>) > 0
  THEN LET channelIdx == IndexOfPart(parts, <<"c", "h", "a", "n", "n", "e", "l">>)
           channel == PartAt(parts, channelIdx + 1)
       IN  <<<<"d", "i", "s", "c", "o", "r", "d">>>> \o (IF channelIdx > 0 /\ channel # Absent /\ Get(channel) # <<>>
                           THEN <<<<"c", "h", "a", "n", "n", "e", "l", ":">> \o Get(channel)>> ELSE <<>>)
  ELSE IF IndexOfPart(parts, <<"t", "e", "l", "e", "g", "r", "a", "m">>) > 0 THEN <<<<"t", "e", "l", "e", "g", "r", "a", "m">>>>
  ELSE IF IndexOfPart(parts, <<"s", "l", "a", "c", "k">>) > 0 THEN <<<<"s", "l", "a", "c", "k">>>>
  ELSE <<>>

\* extractTags(sessionKey, prompt)
ExtractTags(sessionKey, prompt) ==
  LET tags == SourceTags(Split(sessionKey, ":"))
      cronMatch == IF prompt # <<>> /\ IndexOfPart(tags, <<"c", "r", "o", "n">>) > 0
                   THEN FirstMatch(prompt, CronMatchAt) ELSE Absent
      guildMatch == IF prompt # <<>> /\ IndexOfPart(tags, <<"d", "i", "s", "c", "o", "r", "d">>) > 0
                    THEN FirstMatch(prompt, GuildMatchAt) ELSE Absent
  IN  tags \o (IF cronMatch # Absent THEN <<<<"n", "a", "m", "e", ":">> \o Trim(Get(cronMatch))>> ELSE <<>>)
           \o (IF guildMatch # Absent THEN <<<<"g", "u", "i", "l", "d", ":">> \o Get(guildMatch)>> ELSE <<>>)

----------------------------------------------------------------------------
(* tracer.ts: the session model ledger *)

\* this.sessionModels.get(sessionKey), [] when there is none
Ledger(sessionKey) ==
  IF sessionKey \in DOMAIN sessionModels THEN sessionModels[sessionKey] ELSE <<>>

\* a lookup that takes the identity recorded first
GetFirstSessionModelInfo(sessionKey) ==
  LET models == Ledger(sessionKey)
  IN  IF Len(models) = 0 THEN Absent ELSE Some(models[1])

\* getSessionModelInfo(sessionKey)
GetSessionModelInfo(sessionKey) ==
  LET models == Ledger(sessionKey)
  IN  IF Len(models) = 0 THEN Absent ELSE Some(models[Len(models)])

\* `${m.provider}/${m.model}`
ModelString(m) == m.provider \o <<"/">> \o m.model

RECURSIVE Dedupe(_, _)
\* the filter of getAllSessionModels: keep the first occurrence of each string
Dedupe(strs, seen) ==
  IF strs = <<>> THEN <<>>
  ELSE IF Head(strs) \in seen THEN Dedupe(Tail(strs), seen)
  ELSE <<Head(strs)>> \o Dedupe(Tail(strs), seen \cup {Head(strs)})

\* getAllSessionModels(sessionKey)
GetAllSessionModels(sessionKey) ==
  LET models == Ledger(sessionKey)
  IN  Dedupe([i \in 1..Len(models) |-> ModelString(models[i])], {})

----------------------------------------------------------------------------
(* Inputs of the callbacks *)

NoMessages == [isArray |-> FALSE, list |-> <<>>]

\* the callback that ran: its kind and the arguments the formulas refer to
Ev(kind, sessionKey, id, messages) ==
  [kind |-> kind, sessionKey |-> sessionKey, id |-> id, messages |-> messages]

Msg(role, usage) == [role |-> role, usage |-> usage]
Usage(input, output, cacheRead, cacheWrite) ==
  [input |-> input, output |-> output, cacheRead |-> cacheRead, cacheWrite |-> cacheWrite]

\* message lists of agent_end that exercise the usage extraction
UsageMessages ==
  LET small == Usage(Some(2), Some(1), Absent, Absent)
      cached == Usage(Some(10), Some(5), Some(2), Some(1))
      zero == Usage(Some(0), Some(0), Absent, Absent)
      empty == Usage(Absent, Absent, Absent, Absent)
      list(l) == [isArray |-> TRUE, list |-> l]
  IN  { NoMessages,
        list(<<>>),
        list(<<Msg("user", Absent), Msg("assistant", Absent)>>),
        list(<<Msg("assistant", Absent), Msg("user", Some(small))>>),
        list(<<Msg("user", Absent), Msg("assistant", Some(cached))>>),
        list(<<Msg("assistant", Some(small)), Msg("user", Absent), Msg("assistant", Some(cached))>>),
        list(<<Msg("assistant", Some(cached)), Msg("assistant", Absent), Msg("user", Some(small))>>),
        list(<<Msg("assistant", Some(small)), Msg("assistant", Some(zero))>>),
        list(<<Msg("assistant", Some(empty))>>) }

\* event.success of agent_end
Successes == BOOLEAN

\* event.error of after_tool_call
ToolErrors == { Absent, Some(<<"e">>) }

\* event._langsmithToolRunId ?? event.toolCallId of after_tool_call
CallIds == { Absent } \cup { Some(u) : u \in UUIDs } \cup { Some(LlmKey(t)) : t \in TraceIds }

\* (model, provider) arguments of recordLlmCall
ModelArgs ==
  { [model |-> Some(<<"g", "p", "t", "-", "5">>), provider |-> Absent],
    [model |-> Absent, provider |-> Absent] }

\* (model, provider) arguments that reach every branch of parseModelInfo
ModelInputs ==
  LET p == Some(<<"p">>)
      arg(m, v) == [model |-> Some(m), provider |-> v]
  IN  { arg(<<"c", "l", "a", "u", "d", "e", "-", "3">>, Absent),
        arg(<<"g", "p", "t", "-", "5">>, Absent),
        arg(<<"o", "1">>, Absent),
        arg(<<"o", "3">>, Absent),
        arg(<<"g", "e", "m", "i", "n", "i">>, Absent),
        arg(<<"g", "l", "m">>, Absent),
        arg(<<"k", "i", "m", "i">>, Absent),
        arg(<<"g", "p", "t">>, Absent),
        arg(<<>>, Absent),
        arg(<<"x", "/", "y">>, Absent),
        arg(<<"x", "/", "y", "/", "z">>, Absent),
        arg(<<"c", "l", "a", "u", "d", "e", "/", "y">>, Absent),
        arg(<<"c", "l", "a", "u", "d", "e">>, p),
        arg(<<"x", "/", "y">>, p),
        arg(<<"k", "i", "m", "i">>, Some(<<>>)),
        [model |-> Absent, provider |-> Absent] }

\* (model, provider) arguments of the model calls of one turn
LedgerInputs ==
  { [model |-> Some(<<"g", "p", "t", "-", "5">>), provider |-> Absent],
    [model |-> Some(<<"x", "/", "y">>), provider |-> Absent] }

\* (ctx.sessionKey, event.prompt) of before_agent_start that reach every branch
\* of extractTags
TagInputs ==
  { <<<<"a", ":", "c", "r", "o", "n", ":", "j">>,
      <<"h", "i">>>>,
    <<<<"a", ":", "c", "r", "o", "n", ":", "j">>,
      <<"[", "c", "r", "o", "n", ":", "j", " ", "N", " ", "(">>>>,
    <<<<"c", "r", "o", "n">>,
      <<"h", "i">>>>,
    <<<<"a", ":", "c", "r", "o", "n", ":">>,
      <<"h", "i">>>>,
    <<<<"d", "i", "s", "c", "o", "r", "d", ":", "c", "r", "o", "n", ":", "j">>,
      <<"[", "D", "i", "s", "c", "o", "r", "d", " ", "G", "u", "i", "l", "d", " ", "#", "g", " ", "x">>>>,
    <<<<"a", ":", "d", "i", "s", "c", "o", "r", "d", ":", "c", "h", "a", "n", "n", "e", "l", ":", "1">>,
      <<"[", "D", "i", "s", "c", "o", "r", "d", " ", "G", "u", "i", "l", "d", " ", "#", "g", " ", "x">>>>,
    <<<<"a", ":", "d", "i", "s", "c", "o", "r", "d", ":", "c", "h", "a", "n", "n", "e", "l", ":", "1">>,
      <<"[", "c", "r", "o", "n", ":", "j", " ", "N", " ", "(">>>>,
    <<<<"a", ":", "d", "i", "s", "c", "o", "r", "d">>,
      <<"h", "i">>>>,
    <<<<"c", "h", "a", "n", "n", "e", "l", ":", "9", ":", "d", "i", "s", "c", "o", "r", "d">>,
      <<"h", "i">>>>,
    <<<<"a", ":", "t", "e", "l", "e", "g", "r", "a", "m", ":", "s", "l", "a", "c", "k">>,
      <<"h", "i">>>>,
    <<<<"a", ":", "s", "l", "a", "c", "k">>,
      <<"h", "i">>>>,
    <<<<"a">>,
      <<"[", "c", "r", "o", "n", ":", "j", " ", "N", " ", "(">>>>,
    <<<<"t", "e", "l", "e", "g", "r", "a", "m", ":", "d", "i", "s", "c", "o", "r", "d">>,
      <<"h", "i">>>>,
    <<<<"c", "r", "o", "n", "x">>,
      <<"h", "i">>>> }

\* (ctx.sessionKey, event.prompt) of the turns that are started and ended
TurnTagInputs ==
  { <<<<"a", ":", "c", "r", "o", "n", ":", "j">>,
      <<"[", "c", "r", "o", "n", ":", "j", " ", "N", " ", "(">>>>,
    <<<<"a", ":", "d", "i", "s", "c", "o", "r", "d", ":", "c", "h", "a", "n", "n", "e", "l", ":", "1">>,
      <<"[", "D", "i", "s", "c", "o", "r", "d", " ", "G", "u", "i", "l", "d", " ", "#", "g", " ", "x">>>>,
    <<<<"a">>,
      <<"h", "i">>>> }

\* events of the engram side channel
LlmEvents ==
  { [kind |-> k, traceId |-> t, input |-> i, tokenUsage |-> u,
     error |-> IF k = "llm_error" THEN Some(<<"x">>) ELSE Absent] :
      k \in {"llm_start", "llm_end", "llm_error"}, t \in TraceIds,
      i \in { Absent, Some(<<"q">>) },
      u \in { Absent } }

----------------------------------------------------------------------------
(* tracer.ts: Tracer *)

ActiveRun(runId, traceId, dottedOrder, parentRunId, startTime, input) ==
  [runId |-> runId, traceId |-> traceId, dottedOrder |-> dottedOrder,
   parentRunId |-> parentRunId, startTime |-> startTime, input |-> input]

\* recordLlmCall(sessionKey, model, provider); model.includes throws on undefined
RecordLlmCallThrows(model, provider) ==
  model = Absent /\ (provider = Absent \/ Get(provider) = <<>>)

RecordLlmCall(sessionKey, model, provider) ==
  IF RecordLlmCallThrows(model, provider)
  THEN /\ raised' = TRUE
       /\ UNCHANGED sessionModels
  ELSE /\ raised' = FALSE
       /\ sessionModels' = MapSet(sessionModels, sessionKey,
            Append(Ledger(sessionKey), ParseModelInfo(Get(model), provider)))

\* startAgentRun(sessionKey, prompt)
StartAgentRun(sessionKey, prompt) ==
  \E runId \in RandomUUIDs \ usedIds :
    LET startTime == IsoTime(clock)
        dottedOrder == MakeDottedOrder(clock, runId, Absent)
    IN  /\ usedIds' = usedIds \cup {runId}
        /\ activeAgentRuns' = MapSet(activeAgentRuns, sessionKey,
             ActiveRun(runId, runId, dottedOrder, Absent, startTime, Absent))
        /\ CreateRun([EmptyRun EXCEPT !.id = runId, !.trace_id = runId,
                                      !.dotted_order = dottedOrder,
                                      !.run_type = Some("llm"),
                                      !.prompt = Some(prompt),
                                      !.sessionKey = Some(sessionKey),
                                      !.tags = ExtractTags(sessionKey, prompt),
                                      !.start_time = Some(startTime)])
        /\ UNCHANGED <<activeToolRuns, sessionModels>>

\* the normalisation of endAgentRun (lines 202-204): <<prompt, completion, total>>
NormalizeUsage(usage) ==
  LET u == IF usage = Absent
           THEN [prompt_tokens |-> Absent, completion_tokens |-> Absent,
                 input_tokens |-> Absent, output_tokens |-> Absent, total_tokens |-> Absent]
           ELSE Get(usage)
      promptTokens == Get(Coalesce(u.prompt_tokens, Coalesce(u.input_tokens, Some(0))))
      completionTokens == Get(Coalesce(u.completion_tokens, Coalesce(u.output_tokens, Some(0))))
      totalTokens == Get(Coalesce(u.total_tokens, Some(promptTokens + completionTokens)))
  IN  [prompt_tokens |-> promptTokens, completion_tokens |-> completionTokens,
       total_tokens |-> totalTokens]

\* "Agent turn failed"
AgentTurnFailed ==
  <<"A", "g", "e", "n", "t", " ", "t", "u", "r", "n", " ", "f", "a", "i", "l", "e", "d">>

\* "(not captured)"
NotCaptured == <<"(", "n", "o", "t", " ", "c", "a", "p", "t", "u", "r", "e", "d", ")">>

\* the guard on the token fields and on usage_metadata
EmitsTokens(totalTokens) == totalTokens > 0

\* the patch endAgentRun builds for an active run (lines 195-263)
AgentPatch(active, sessionKey, messages, success, usage) ==
  LET t == NormalizeUsage(usage)
      emits == EmitsTokens(t.total_tokens)
  IN  [EmptyRun EXCEPT
         !.id = active.runId, !.trace_id = active.traceId,
         !.dotted_order = active.dottedOrder,
         !.end_time = Some(IsoTime(clock)),
         !.messages = Some(messages),
         !.sessionKey = Some(sessionKey),
         !.tags = (LET modelInfo == GetSessionModelInfo(sessionKey)
                   IN  IF modelInfo = Absent THEN <<>>
                       ELSE <<<<"p", "r", "o", "v", "i", "d", "e", "r", ":">> \o Get(modelInfo).provider,
                              <<"m", "o", "d", "e", "l", ":">> \o Get(modelInfo).model>>),
         !.model = GetSessionModelInfo(sessionKey),
         !.all_models = GetAllSessionModels(sessionKey),
         !.usage_metadata = IF emits
                            THEN Some([input_tokens |-> t.prompt_tokens,
                                       output_tokens |-> t.completion_tokens,
                                       total_tokens |-> t.total_tokens])
                            ELSE Absent,
         !.tokens = IF emits THEN Some(t) ELSE Absent,
         !.error = IF success THEN Absent ELSE Some(AgentTurnFailed)]

\* endAgentRun without the delete of line 193
AgentRunsKept(runs, sessionKey) == runs

\* this.activeAgentRuns after endAgentRun's delete (line 193)
AgentRunsAfterEnd(runs, sessionKey) == MapDelete(runs, sessionKey)

\* endAgentRun without the test of lines 188-191
EndAgentRunUnguarded(sessionKey, messages, success, usage) ==
  LET active == IF sessionKey \in DOMAIN activeAgentRuns THEN activeAgentRuns[sessionKey]
                ELSE ActiveRun(<<>>, <<>>, <<>>, Absent, <<>>, Absent)
  IN  /\ activeAgentRuns' = MapDelete(activeAgentRuns, sessionKey)
      /\ sessionModels' = MapDelete(sessionModels, sessionKey)
      /\ UpdateRun(active.runId, AgentPatch(active, sessionKey, messages, success, usage))
      /\ UNCHANGED activeToolRuns

\* endAgentRun(sessionKey, messages, success, usage)
EndAgentRun(sessionKey, messages, success, usage) ==
  IF sessionKey \notin DOMAIN activeAgentRuns
  THEN UNCHANGED <<clientVars, tracerVars>>
  ELSE LET active == activeAgentRuns[sessionKey]
       IN  /\ activeAgentRuns' = AgentRunsAfterEnd(activeAgentRuns, sessionKey)
           /\ sessionModels' = MapDelete(sessionModels, sessionKey)
           /\ UpdateRun(active.runId, AgentPatch(active, sessionKey, messages, success, usage))
           /\ UNCHANGED activeToolRuns

\* a lookup that takes whichever turn is open, of any session
ParentRunAnySession(sessionKey) ==
  IF DOMAIN activeAgentRuns = {} THEN Absent
  ELSE Some(activeAgentRuns[CHOOSE k \in DOMAIN activeAgentRuns : TRUE])

\* const parentRun = this.activeAgentRuns.get(sessionKey) (line 278)
ParentRun(sessionKey) == MapGet(activeAgentRuns, sessionKey)

\* startToolRun(sessionKey, toolName, params)
StartToolRun(sessionKey) ==
  \E runId \in RandomUUIDs \ usedIds :
    LET startTime == IsoTime(clock)
        parentRun == ParentRun(sessionKey)
        parentRunId == IF parentRun = Absent THEN Absent ELSE Some(Get(parentRun).runId)
        traceId == IF parentRun = Absent THEN runId ELSE Get(parentRun).traceId
        dottedOrder == MakeDottedOrder(clock, runId,
                         IF parentRun = Absent THEN Absent ELSE Some(Get(parentRun).dottedOrder))
    IN  /\ usedIds' = usedIds \cup {runId}
        /\ activeToolRuns' = MapSet(activeToolRuns, runId,
             ActiveRun(runId, traceId, dottedOrder, parentRunId, startTime, Absent))
        /\ CreateRun([EmptyRun EXCEPT !.id = runId, !.trace_id = traceId,
                                      !.dotted_order = dottedOrder,
                                      !.run_type = Some("tool"),
                                      !.parent_run_id = parentRunId,
                                      !.start_time = Some(startTime)])
        /\ UNCHANGED <<activeAgentRuns, sessionModels>>

\* endToolRun(toolCallId, result, error)
EndToolRun(toolCallId, error) ==
  IF toolCallId \notin DOMAIN activeToolRuns
  THEN UNCHANGED <<clientVars, tracerVars>>
  ELSE LET active == activeToolRuns[toolCallId]
       IN  /\ activeToolRuns' = MapDelete(activeToolRuns, toolCallId)
           /\ UpdateRun(active.runId,
                [EmptyRun EXCEPT !.id = active.runId, !.trace_id = active.traceId,
                                 !.dotted_order = active.dottedOrder,
                                 !.end_time = Some(IsoTime(clock)),
                                 !.error = IF error # Absent /\ Get(error) # <<>>
                                           THEN error ELSE Absent])
           /\ UNCHANGED <<activeAgentRuns, sessionModels>>

\* the token normalisation of traceLlmCall (lines 366-368)
NormalizeLlmUsage(tokenUsage) ==
  LET u == IF tokenUsage = Absent
           THEN [input |-> Absent, output |-> Absent, total |-> Absent]
           ELSE Get(tokenUsage)
      promptTokens == Get(Coalesce(u.input, Some(0)))
      completionTokens == Get(Coalesce(u.output, Some(0)))
      totalTokens == Get(Coalesce(u.total, Some(promptTokens + completionTokens)))
  IN  [prompt_tokens |-> promptTokens, completion_tokens |-> completionTokens,
       total_tokens |-> totalTokens]

\* traceLlmCall(event)
TraceLlmCall(event) ==
  IF event.kind = "llm_start"
  THEN /\ activeToolRuns' = MapSet(activeToolRuns, LlmKey(event.traceId),
             ActiveRun(event.traceId, event.traceId,
                       MakeDottedOrder(clock, event.traceId, Absent),
                       Absent, IsoTime(clock), event.input))
       /\ UNCHANGED <<clientVars, activeAgentRuns, sessionModels>>
  ELSE LET startEntry == MapGet(activeToolRuns, LlmKey(event.traceId))
           startTime == IF startEntry # Absent THEN Get(startEntry).startTime ELSE IsoTime(clock)
           dottedOrder == IF startEntry # Absent THEN Get(startEntry).dottedOrder
                          ELSE MakeDottedOrder(clock, event.traceId, Absent)
           inputText == Get(Coalesce(IF startEntry # Absent THEN Get(startEntry).input ELSE Absent,
                              Coalesce(event.input, Some(NotCaptured))))
           t == NormalizeLlmUsage(event.tokenUsage)
           emits == EmitsTokens(t.total_tokens)
       IN  /\ activeToolRuns' = MapDelete(activeToolRuns, LlmKey(event.traceId))
           /\ CreateRun([EmptyRun EXCEPT
                !.id = event.traceId, !.trace_id = event.traceId,
                !.dotted_order = dottedOrder, !.run_type = Some("llm"),
                !.prompt = Some(inputText),
                !.start_time = Some(startTime), !.end_time = Some(IsoTime(clock)),
                !.usage_metadata = IF emits
                                   THEN Some([input_tokens |-> t.prompt_tokens,
                                              output_tokens |-> t.completion_tokens,
                                              total_tokens |-> t.total_tokens])
                                   ELSE Absent,
                !.tokens = IF emits THEN Some(t) ELSE Absent,
                !.error = event.error])
           /\ UNCHANGED <<activeAgentRuns, sessionModels>>

----------------------------------------------------------------------------
(* index.ts: the hooks register() installs, the engram slot, the service *)

\* a test that takes the empty string for a prompt
HasPromptDefined(prompt) == prompt # Absent

\* if (prompt): neither undefined nor the empty string
HasPrompt(prompt) == prompt # Absent /\ Get(prompt) # <<>>

\* before_agent_start hook (lines 60-66)
BeforeAgentStart(ctxKey, prompt) ==
  /\ ev' = Ev("before_agent_start", SessionKeyOf(ctxKey), <<>>, NoMessages)
  /\ raised' = FALSE
  /\ IF HasPrompt(prompt)
     THEN StartAgentRun(SessionKeyOf(ctxKey), Get(prompt))
     ELSE UNCHANGED <<clientVars, tracerVars, usedIds>>
  /\ UNCHANGED <<batchMaxSize, timer, clock, slot, svc, stopReq>>

\* agent_end hook (lines 72-80)
AgentEnd(ctxKey, messages, success) ==
  /\ ev' = Ev("agent_end", SessionKeyOf(ctxKey), <<>>, messages)
  /\ raised' = FALSE
  /\ EndAgentRun(SessionKeyOf(ctxKey), messages, success, ExtractUsageFromMessages(messages))
  /\ UNCHANGED <<batchMaxSize, timer, usedIds, clock, slot, svc, stopReq>>

\* before_tool_call hook (lines 85-93)
BeforeToolCall(ctxKey) ==
  /\ ev' = Ev("before_tool_call", SessionKeyOf(ctxKey), <<>>, NoMessages)
  /\ raised' = FALSE
  /\ StartToolRun(SessionKeyOf(ctxKey))
  /\ UNCHANGED <<batchMaxSize, timer, clock, slot, svc, stopReq>>

\* after_tool_call hook (lines 98-103)
AfterToolCall(callId, error) ==
  /\ ev' = Ev("after_tool_call", <<>>, IF callId = Absent THEN <<>> ELSE Get(callId), NoMessages)
  /\ raised' = FALSE
  /\ IF callId # Absent /\ Get(callId) # <<>>
     THEN EndToolRun(Get(callId), error)
     ELSE UNCHANGED <<clientVars, tracerVars>>
  /\ UNCHANGED <<batchMaxSize, timer, usedIds, clock, slot, svc, stopReq>>

\* globalThis.__openclawEngramTrace(event), called by the engram plugin when set
EngramTrace(event) ==
  /\ slot
  /\ ev' = Ev(event.kind, <<>>, event.traceId, NoMessages)
  /\ raised' = FALSE
  /\ TraceLlmCall(event)
  /\ UNCHANGED <<batchMaxSize, timer, usedIds, clock, slot, svc, stopReq>>

\* a caller of the exported Tracer.recordLlmCall
LlmCallRecorded(ctxKey, args) ==
  /\ ev' = Ev("recordLlmCall", SessionKeyOf(ctxKey), <<>>, NoMessages)
  /\ RecordLlmCall(SessionKeyOf(ctxKey), args.model, args.provider)
  /\ UNCHANGED <<batchMaxSize, clientVars, timer, activeAgentRuns, activeToolRuns,
                 usedIds, clock, slot, svc, stopReq>>

\* the setInterval callback of the client's constructor
TimerFlush ==
  /\ timer
  /\ ev' = Ev("timer", <<>>, <<>>, NoMessages)
  /\ raised' = FALSE
  /\ LET r == Flush(queue, requests)
     IN  /\ queue' = r.queue
         /\ requests' = r.requests
  /\ UNCHANGED <<batchMaxSize, timer, nOps, tracerVars, usedIds, clock, slot, svc, stopReq>>

\* service.start
ServiceStart ==
  /\ svc \in {"registered", "stopped"}
  /\ svc' = "running"
  /\ ev' = Ev("start", <<>>, <<>>, NoMessages)
  /\ raised' = FALSE
  /\ UNCHANGED <<batchMaxSize, clientVars, timer, tracerVars, usedIds, clock, slot, stopReq>>

\* the timer after client.close()
CloseTimer(t) == FALSE

\* service.stop up to the end of its await: flush()'s synchronous part; with an
\* empty queue flush() returns at once and stop() runs to its end
ServiceStop ==
  /\ svc = "running"
  /\ ev' = Ev("stop", <<>>, <<>>, NoMessages)
  /\ raised' = FALSE
  /\ LET r == Flush(queue, requests)
     IN  /\ queue' = r.queue
         /\ requests' = r.requests
         /\ IF Len(r.requests) = Len(requests)
            THEN /\ timer' = CloseTimer(timer)
                 /\ slot' = FALSE
                 /\ svc' = "stopped"
                 /\ stopReq' = 0
            ELSE /\ svc' = "stopping"
                 /\ stopReq' = Len(r.requests)
                 /\ UNCHANGED <<timer, slot>>
  /\ UNCHANGED <<batchMaxSize, nOps, tracerVars, usedIds, clock>>

\* a flush that puts a failed batch back in front of the buffer
AfterFetchRequeue(q, batch, outcome) == IF outcome = "ok" THEN q ELSE batch \o q

\* what flush() does with its batch once fetch has settled: nothing is put back
AfterFetch(q, batch, outcome) == q

\* the promise flush() returned rejects: never, the try/catch of lines 65-89
\* takes a rejected fetch and lines 80-82 a response that is not ok
FlushRejects(outcome) == FALSE

\* fetch settles for request i (resolved ok, resolved not ok, or rejected); the
\* stop() awaiting this flush then runs to its end: close(), clear the slot
FetchSettles(i, outcome) ==
  /\ requests[i].state = "pending"
  /\ requests' = [requests EXCEPT ![i].state = IF outcome = "ok" THEN "sent" ELSE "dropped"]
  /\ queue' = AfterFetch(queue, requests[i].body.post \o requests[i].body.patch, outcome)
  /\ IF svc = "stopping" /\ stopReq = i
     THEN /\ timer' = CloseTimer(timer)
          /\ slot' = FALSE
          /\ svc' = "stopped"
          /\ stopReq' = 0
     ELSE UNCHANGED <<timer, slot, svc, stopReq>>
  /\ raised' = FlushRejects(outcome)
  /\ UNCHANGED <<batchMaxSize, nOps, tracerVars, usedIds, clock, ev>>

\* the clock advances by a millisecond
Tick ==
  /\ clock < MaxClock
  /\ clock' = clock + 1
  /\ UNCHANGED <<batchMaxSize, clientVars, timer, tracerVars, usedIds, slot, svc,
                 stopReq, ev, raised>>

----------------------------------------------------------------------------
(* The state after register() returned *)

\* a register() that goes on without an API key
TracingNeverDisabled(apiKey) == FALSE

\* if (!cfg.langsmithApiKey) of register()
TracingDisabled(apiKey) == apiKey = Absent

\* register() has installed its hooks and its service
HooksRegistered == svc # "disabled"

\* register() with an API key: client, tracer, hooks, slot and service
Constructed ==
  /\ batchMaxSize \in { ParseBatchMaxSize(raw) : raw \in RawBatchMaxSizes }
  /\ queue = <<>>
  /\ timer = TRUE
  /\ requests = <<>>
  /\ activeAgentRuns = EmptyMap
  /\ activeToolRuns = EmptyMap
  /\ sessionModels = EmptyMap
  /\ usedIds = {}
  /\ clock = 0
  /\ slot = TRUE
  /\ svc = "registered"
  /\ stopReq = 0
  /\ nOps = 0
  /\ raised = FALSE

\* register() that returned at line 51: no client, no tracer, no hook, no
\* slot, no service
NotConstructed ==
  /\ batchMaxSize = DefaultBatchMaxSize
  /\ queue = <<>>
  /\ timer = FALSE
  /\ requests = <<>>
  /\ activeAgentRuns = EmptyMap
  /\ activeToolRuns = EmptyMap
  /\ sessionModels = EmptyMap
  /\ usedIds = {}
  /\ clock = 0
  /\ slot = FALSE
  /\ svc = "disabled"
  /\ stopReq = 0
  /\ nOps = 0
  /\ raised = FALSE

\* register() with the API key "k" configured
Init ==
  /\ Constructed
  /\ ev = Ev("register", <<>>, <<"k">>, NoMessages)

\* register() under every configuration and environment of the API key
InitRegister ==
  \E raw \in RawApiKeys, env \in Envs :
    LET apiKey == ParseApiKey(raw, env)
    IN  /\ ev = Ev("register", <<>>, IF apiKey = Absent THEN <<>> ELSE Get(apiKey), NoMessages)
        /\ IF TracingDisabled(apiKey)
           THEN NotConstructed
           ELSE Constructed /\ batchMaxSize = DefaultBatchMaxSize

\* the batch queue under load: tool calls of one session, the timer, the
\* service's start and stop, and the network
Next ==
  \/ nOps < MaxOps /\ BeforeToolCall(Absent) /\ usedIds' \subseteq UUIDs
  \/ nOps < MaxOps /\ \E u \in UUIDs : AfterToolCall(Some(u), Absent)
  \/ TimerFlush
  \/ svc = "registered" /\ ServiceStart
  \/ ServiceStop
  \/ \E i \in 1..Len(requests), o \in {"ok", "not_ok", "rejected"} : FetchSettles(i, o)

Spec == Init /\ [][Next]_vars

\* the run registry under the default configuration: turn and tool hooks on two
\* sessions, started engram calls and recordLlmCall on the default session
InitTracer == Init /\ batchMaxSize = DefaultBatchMaxSize

NextTracer ==
  \/ nOps < MaxSpanOps /\ \E k \in CtxSessionKeys :
       BeforeAgentStart(k, Some(<<"h", "i">>)) /\ usedIds' \subseteq UUIDs
  \/ nOps < MaxSpanOps /\ \E k \in CtxSessionKeys : AgentEnd(k, NoMessages, TRUE)
  \/ nOps < MaxSpanOps /\ \E k \in CtxSessionKeys : BeforeToolCall(k) /\ usedIds' \subseteq UUIDs
  \/ nOps < MaxSpanOps /\ \E c \in CallIds : AfterToolCall(c, Absent)
  \/ nOps < MaxSpanOps /\ \E e \in LlmEvents : e.input = Absent /\ e.kind = "llm_start" /\ EngramTrace(e)
  \/ \E a \in ModelArgs :
       /\ a.model # Absent
       /\ Len(Ledger(SessionKeyOf(Absent))) < MaxLedger
       /\ LlmCallRecorded(Absent, a)

SpecTracer == InitTracer /\ [][NextTracer]_vars

\* turns of one session whose end events carry every shape of message list
NextUsage ==
  \/ nOps < MaxSpanOps /\ BeforeAgentStart(Absent, Some(<<"h", "i">>)) /\ usedIds' \subseteq UUIDs
  \/ nOps < MaxSpanOps /\ \E m \in UsageMessages, ok \in Successes : AgentEnd(Absent, m, ok)

SpecUsage == InitTracer /\ [][NextUsage]_vars

\* turns of two sessions, with every shape of prompt and both outcomes
NextTurns ==
  \/ nOps < MaxSpanOps /\ \E k \in CtxSessionKeys, p \in Prompts : BeforeAgentStart(k, p)
  \/ nOps < MaxSpanOps /\ \E k \in CtxSessionKeys, ok \in Successes : AgentEnd(k, NoMessages, ok)

SpecTurns == InitTracer /\ [][NextTurns]_vars

\* one session's turn and its tool calls, while the clock advances
NextOrder ==
  \/ nOps < MaxSpanOps /\ BeforeAgentStart(Absent, Some(<<"h", "i">>))
  \/ nOps < MaxSpanOps /\ BeforeToolCall(Absent)
  \/ Tick

SpecOrder == InitTracer /\ [][NextOrder]_vars

\* one session's turn, tool calls and engram calls from start to end, while
\* the clock advances
NextKeys ==
  \/ nOps < MaxSpanOps /\ BeforeAgentStart(Absent, Some(<<"h", "i">>)) /\ usedIds' \subseteq UUIDs
  \/ nOps < MaxSpanOps /\ AgentEnd(Absent, NoMessages, TRUE)
  \/ nOps < MaxSpanOps /\ BeforeToolCall(Absent) /\ usedIds' \subseteq UUIDs
  \/ nOps < MaxSpanOps /\ \E c \in CallIds : AfterToolCall(c, Absent)
  \/ nOps < MaxSpanOps /\ \E e \in LlmEvents :
       e.input = Absent /\ e.kind \in {"llm_start", "llm_end"} /\ EngramTrace(e)
  \/ Tick

SpecKeys == InitTracer /\ [][NextKeys]_vars

\* callers of recordLlmCall on two sessions, with every shape of arguments
NextLedger ==
  \E k \in CtxSessionKeys, a \in ModelInputs :
    /\ Len(Ledger(SessionKeyOf(k))) < MaxLedger
    /\ LlmCallRecorded(k, a)

SpecLedger == InitTracer /\ [][NextLedger]_vars

\* the plugin from register() on: tool calls, engram calls, the timer, the
\* network, and the service started and stopped any number of times
NextLifecycle ==
  \/ HooksRegistered /\ nOps < MaxOps /\ BeforeToolCall(Absent) /\ usedIds' \subseteq UUIDs
  \/ nOps < MaxOps /\ \E e \in LlmEvents :
       e.input = Absent /\ e.kind = "llm_end" /\ EngramTrace(e)
  \/ TimerFlush
  \/ ServiceStart
  \/ ServiceStop
  \/ \E i \in 1..Len(requests), o \in {"ok", "rejected"} : FetchSettles(i, o)

SpecLifecycle == InitRegister /\ [][NextLifecycle]_vars

\* turn-starts on session keys of every source
NextTags ==
  \E i \in TagInputs :
    /\ nOps < MaxSpanOps
    /\ BeforeAgentStart(Some(i[1]), Some(i[2]))
    /\ usedIds' \subseteq UUIDs

SpecTags == InitTracer /\ [][NextTags]_vars

\* one session's turns, with model calls recorded before, during and after them
NextModels ==
  \/ nOps < MaxSpanOps /\ BeforeAgentStart(Absent, Some(<<"h", "i">>)) /\ usedIds' \subseteq UUIDs
  \/ nOps < MaxSpanOps /\ \E ok \in Successes : AgentEnd(Absent, NoMessages, ok)
  \/ \E a \in LedgerInputs :
       /\ Len(Ledger(SessionKeyOf(Absent))) < MaxTurnLedger
       /\ LlmCallRecorded(Absent, a)

SpecModels == InitTracer /\ [][NextModels]_vars

\* turns started and ended on session keys of several sources
NextTurnTags ==
  \/ \E i \in TurnTagInputs :
       /\ nOps < MaxSpanOps
       /\ BeforeAgentStart(Some(i[1]), Some(i[2]))
       /\ usedIds' \subseteq UUIDs
  \/ \E i \in TurnTagInputs, ok \in Successes :
       nOps < MaxSpanOps /\ AgentEnd(Some(i[1]), NoMessages, ok)

SpecTurnTags == InitTracer /\ [][NextTurnTags]_vars

\* the engram side channel with every shape of event, next to tool-end events,
\* while the clock advances
NextCalls ==
  \/ nOps < MaxSpanOps /\ \E e \in LlmEvents : EngramTrace(e)
  \/ nOps < MaxSpanOps /\ \E c \in CallIds : AfterToolCall(c, Absent)
  \/ Tick

SpecCalls == InitTracer /\ [][NextCalls]_vars

\* one session's turns and tool calls with a batch size of two, the timer and
\* the network: records leave the buffer by the timer and by the threshold
InitPipeline == Init /\ batchMaxSize = 2

NextPipeline ==
  \/ nOps < MaxOps /\ BeforeAgentStart(Absent, Some(<<"h", "i">>)) /\ usedIds' \subseteq UUIDs
  \/ nOps < MaxOps /\ AgentEnd(Absent, NoMessages, TRUE)
  \/ nOps < MaxOps /\ BeforeToolCall(Absent) /\ usedIds' \subseteq UUIDs
  \/ nOps < MaxOps /\ \E u \in UUIDs : AfterToolCall(Some(u), Absent)
  \/ TimerFlush
  \/ \E i \in 1..Len(requests), o \in {"ok", "rejected"} : FetchSettles(i, o)

SpecPipeline == InitPipeline /\ [][NextPipeline]_vars

\* the same with the interval timer of the client's constructor: as long as
\* it is set, its callback runs again and again; nothing is assumed of fetch
SpecPipelineFair == SpecPipeline /\ WF_vars(TimerFlush)

----------------------------------------------------------------------------
(* Vocabulary of the properties *)

Range(f) == { f[i] : i \in DOMAIN f }

\* the BatchOps of one request
OpsOf(req) == Range(req.body.post) \cup Range(req.body.patch)

\* every BatchOp in the buffer or in a request issued so far
AllOps == Range(queue) \cup UNION { OpsOf(requests[i]) : i \in DOMAIN requests }

\* the BatchOp pushed last
LastPushed == CHOOSE o \in AllOps : o.n = nOps

\* how often the BatchOp pushed n-th occurs in the buffer and in the requests
Occurrences(n) ==
  Cardinality({ i \in DOMAIN queue : queue[i].n = n })
  + Cardinality({ <<i, j>> \in (DOMAIN requests) \X (1..MaxOps + 1) :
                    j \in DOMAIN requests[i].body.post /\ requests[i].body.post[j].n = n })
  + Cardinality({ <<i, j>> \in (DOMAIN requests) \X (1..MaxOps + 1) :
                    j \in DOMAIN requests[i].body.patch /\ requests[i].body.patch[j].n = n })

----------------------------------------------------------------------------
(* C1..C5: the batch submission queue, under Spec *)

\* C1: at the moment stop() releases the timer and clears the engram slot, the
\* buffer is empty, whatever callbacks ran before or during the awaited flush.
C1_StopFindsBufferEmpty ==
  [][(svc # "stopped" /\ svc' = "stopped") => (~timer' /\ ~slot' /\ queue' = <<>>)]_vars

\* C2: a flush of a non-empty buffer takes the whole buffer in the step that
\* issues its request and leaves the buffer empty; a request's batch never
\* changes afterwards, and a record pushed without a flush goes to the buffer.
C2_FlushDrainsWholeBuffer ==
  [][/\ Len(requests') >= Len(requests)
     /\ \A i \in DOMAIN requests : requests'[i].body = requests[i].body
     /\ Len(requests') > Len(requests) =>
          /\ Len(requests') = Len(requests) + 1
          /\ queue' = <<>>
          /\ OpsOf(requests'[Len(requests')])
               = Range(queue) \cup { o \in AllOps' : o.n > nOps }
          /\ Len(requests'[Len(requests')].body.post)
               + Len(requests'[Len(requests')].body.patch) = Len(queue) + (nOps' - nOps)
     /\ (Len(requests') = Len(requests) /\ nOps' > nOps) =>
          /\ Len(queue') = Len(queue) + 1
          /\ SubSeq(queue', 1, Len(queue)) = queue
          /\ queue'[Len(queue')].n = nOps'
     /\ (Len(requests') = Len(requests) /\ nOps' = nOps) => queue' = queue]_vars

\* a record pushed while a request is in flight waits in a fresh buffer
C2_Witness ==
  \E i \in DOMAIN requests :
    /\ requests[i].state = "pending"
    /\ queue # <<>>
    /\ \A o \in OpsOf(requests[i]) : \A j \in DOMAIN queue : o.n < queue[j].n

C3_WitnessConcurrent ==
  \E i, j \in DOMAIN requests :
    i # j /\ requests[i].state = "pending" /\ requests[j].state = "pending"

\* C4 as stated: after createRun or updateRun returned, the buffer holds fewer
\* than batchMaxSize records, in every reachable state.
C4_BufferBelowMax == nOps >= 1 => Len(queue) < batchMaxSize

\* C4 as amended: it does for a configured maximum of at least 1; with a
\* maximum below 1 every push flushes at once and the buffer is empty after it.
C4_BufferBelowPositiveMax ==
  IF batchMaxSize >= 1 THEN Len(queue) < batchMaxSize ELSE queue = <<>>

\* a push reached batchMaxSize and its flush emptied the buffer
C4_Witness ==
  /\ batchMaxSize >= 1
  /\ ev.kind \in {"before_tool_call", "after_tool_call"}
  /\ nOps >= batchMaxSize
  /\ queue = <<>>
  /\ LastPushed \in OpsOf(requests[Len(requests)])
  /\ Len(requests[Len(requests)].body.post)
       + Len(requests[Len(requests)].body.patch) = batchMaxSize

\* C5: a flush of an empty buffer, from the timer or from stop(), issues no
\* request and changes nothing of the queue or of the registry; the timer's
\* changes nothing at all.
C5_EmptyFlushIsNoOp ==
  [][/\ (TimerFlush /\ queue = <<>>) =>
          UNCHANGED <<batchMaxSize, clientVars, timer, tracerVars, usedIds, clock,
                      slot, svc, stopReq>>
     /\ (ServiceStop /\ queue = <<>>) => UNCHANGED <<clientVars, tracerVars>>]_vars

\* the timer fired on an empty buffer and no request was ever issued
C5_Witness == ev.kind = "timer" /\ queue = <<>> /\ requests = <<>> /\ svc = "running"

----------------------------------------------------------------------------
(* C6, C7, C10: the run registry's spans, under SpecTracer *)

\* the create records of tool spans
ToolCreates == { o \in AllOps : o.method = "POST" /\ o.body.run_type = Some("tool") }

\* the update records of turn spans (the only ones that carry messages)
TurnPatches == { o \in AllOps : o.method = "PATCH" /\ o.body.messages # Absent }

\* the update records of tool spans
ToolPatches ==
  { o \in AllOps : o.method = "PATCH" /\ \E c \in ToolCreates : c.body.id = o.body.id }

\* C6: a tool span's parent, trace id and ordering-key prefix are those of the
\* turn open for its session when the tool call started; with no turn open the
\* parent is absent and the trace id is the span's own id. The open entry and
\* the later update record keep the trace id and ordering key of the create
\* record, whatever turn and tool events come in between.
C6_ToolParentIsOpenTurn ==
  /\ [][\A k \in CtxSessionKeys : BeforeToolCall(k) =>
          LET sk == SessionKeyOf(k)
              c == LastPushed'
          IN  /\ nOps' = nOps + 1
              /\ c \in ToolCreates'
              /\ IF sk \in DOMAIN activeAgentRuns
                 THEN /\ c.body.parent_run_id = Some(activeAgentRuns[sk].runId)
                      /\ c.body.trace_id = activeAgentRuns[sk].traceId
                      /\ StartsWith(c.body.dotted_order,
                                    activeAgentRuns[sk].dottedOrder \o <<".">>)
                 ELSE /\ c.body.parent_run_id = Absent
                      /\ c.body.trace_id = c.body.id]_vars
  /\ [](\A c \in ToolCreates :
          /\ c.body.id \in DOMAIN activeToolRuns =>
               /\ activeToolRuns[c.body.id].parentRunId = c.body.parent_run_id
               /\ activeToolRuns[c.body.id].traceId = c.body.trace_id
               /\ activeToolRuns[c.body.id].dottedOrder = c.body.dotted_order
          /\ \A u \in ToolPatches : u.body.id = c.body.id =>
               /\ u.body.trace_id = c.body.trace_id
               /\ u.body.dotted_order = c.body.dotted_order)

\* a tool span with a parent turn was closed after that turn was closed, and a
\* tool span started with no turn open has no parent
C6_Witness ==
  /\ \E c \in ToolCreates, t \in TurnPatches, u \in ToolPatches :
       /\ c.body.parent_run_id = Some(t.body.id)
       /\ u.body.id = c.body.id
       /\ c.n < t.n /\ t.n < u.n
       /\ u.body.trace_id = t.body.id

\* a tool span started while only the other session had a turn open
C6_WitnessOrphan ==
  \E c \in ToolCreates :
    /\ c.body.parent_run_id = Absent
    /\ c.body.trace_id = c.body.id
    /\ \E o \in AllOps : o.method = "POST" /\ o.body.run_type = Some("llm") /\ o.n < c.n
    /\ TurnPatches = {}

\* C7: a turn-end on a session with an open turn emits exactly one record, the
\* update of the span its turn-start created, and leaves no turn open for that
\* session; no turn span is ever updated twice.
C7_TurnEndClosesOneSpan ==
  /\ [][\A k \in CtxSessionKeys :
          (AgentEnd(k, NoMessages, TRUE) /\ SessionKeyOf(k) \in DOMAIN activeAgentRuns) =>
            LET sk == SessionKeyOf(k)
                u == LastPushed'
            IN  /\ nOps' = nOps + 1
                /\ AllOps' = AllOps \cup {u}
                /\ u \in TurnPatches'
                /\ u.body.id = activeAgentRuns[sk].runId
                /\ sk \notin DOMAIN activeAgentRuns'
                /\ \A other \in DOMAIN activeAgentRuns \ {sk} :
                     /\ other \in DOMAIN activeAgentRuns'
                     /\ activeAgentRuns'[other] = activeAgentRuns[other]]_vars
  /\ [](/\ \A sk \in DOMAIN activeAgentRuns :
             /\ \E c \in AllOps : /\ c.method = "POST"
                                  /\ c.body.run_type = Some("llm")
                                  /\ c.body.id = activeAgentRuns[sk].runId
             /\ \A u \in TurnPatches : u.body.id # activeAgentRuns[sk].runId
        /\ \A u1, u2 \in TurnPatches : u1.body.id = u2.body.id => u1 = u2)

\* a turn was started and ended, and its session has no open turn
C7_Witness ==
  /\ ev.kind = "agent_end"
  /\ ev.sessionKey \notin DOMAIN activeAgentRuns
  /\ \E u \in TurnPatches : u.n = nOps /\
       \E c \in AllOps : c.method = "POST" /\ c.body.id = u.body.id /\ c.n < u.n

\* the tool spans that are open: entries of activeToolRuns made by startToolRun
OpenToolSpans == { k \in DOMAIN activeToolRuns : \E c \in ToolCreates : c.body.id = k }

\* C10: a tool-end whose call identifier matches no open tool span pushes no
\* record, raises nothing, and leaves the maps, the ledger and the buffer as
\* they were.
C10_UnknownToolEndIsNoOp ==
  [][\A c \in CallIds :
       (AfterToolCall(c, Absent) /\ (c = Absent \/ Get(c) \notin OpenToolSpans)) =>
         (UNCHANGED <<clientVars, tracerVars>> /\ ~raised')]_vars

----------------------------------------------------------------------------
(* C8, C9: token usage of a closed turn, under SpecUsage *)

\* positions of the assistant messages that carry usage
UsagePositions(list) ==
  { i \in DOMAIN list : list[i].role = "assistant" /\ list[i].usage # Absent }

\* usage of the last assistant message that carries usage
LastUsage(list) ==
  Get(list[CHOOSE i \in UsagePositions(list) : \A j \in UsagePositions(list) : j <= i].usage)

Field(f) == IF f = {} THEN 0 ELSE CHOOSE n \in f : TRUE

\* promptTokens = input + cacheRead + cacheWrite, completionTokens = output,
\* totalTokens = promptTokens + completionTokens
Normalized(u) ==
  [prompt_tokens |-> Field(u.input) + Field(u.cacheRead) + Field(u.cacheWrite),
   completion_tokens |-> Field(u.output),
   total_tokens |-> Field(u.input) + Field(u.cacheRead) + Field(u.cacheWrite) + Field(u.output)]

HasUsage(messages) == messages.isArray /\ UsagePositions(messages.list) # {}

\* C8 as stated: the token fields of a closed turn equal the normalization of
\* the usage of the last assistant message with usage, for every message list.
C8_TokensAreLastUsage ==
  \A u \in TurnPatches :
    HasUsage(Get(u.body.messages)) =>
      u.body.tokens = Some(Normalized(LastUsage(Get(u.body.messages).list)))

\* C8 as amended: they do whenever the normalized total is positive; when it is
\* not, the update record carries no token fields and no usage metadata.
C8_TokensAreLastUsageIfPositive ==
  \A u \in TurnPatches :
    HasUsage(Get(u.body.messages)) =>
      LET t == Normalized(LastUsage(Get(u.body.messages).list))
      IN  IF t.total_tokens > 0
          THEN /\ u.body.tokens = Some(t)
               /\ u.body.usage_metadata = Some([input_tokens |-> t.prompt_tokens,
                                                output_tokens |-> t.completion_tokens,
                                                total_tokens |-> t.total_tokens])
          ELSE u.body.tokens = Absent /\ u.body.usage_metadata = Absent

\* a closed turn whose list holds two assistant messages with different usage
\* carries the tokens of the later one
C8_Witness ==
  \E u \in TurnPatches :
    LET m == Get(u.body.messages)
    IN  /\ HasUsage(m)
        /\ \E i, j \in UsagePositions(m.list) : i < j /\ m.list[i].usage # m.list[j].usage
        /\ u.body.tokens = Some(Normalized(LastUsage(m.list)))
        /\ Normalized(LastUsage(m.list)).total_tokens = 18

\* C9: with no assistant message carrying usage in the list, or no list, the
\* turn's update record carries no token fields and no usage metadata.
C9_NoUsageNoTokens ==
  \A u \in TurnPatches :
    ~HasUsage(Get(u.body.messages)) =>
      u.body.tokens = Absent /\ u.body.usage_metadata = Absent

\* a closed turn whose list holds usage only on a user message carries no tokens
C9_Witness ==
  \E u \in TurnPatches :
    LET m == Get(u.body.messages)
    IN  /\ m.isArray
        /\ \E i \in DOMAIN m.list : m.list[i].role = "user" /\ m.list[i].usage # Absent
        /\ ~HasUsage(m)
        /\ u.body.tokens = Absent

----------------------------------------------------------------------------
(* C11, C19, C20: turn events, under SpecTurns *)

\* the create records of turn spans
TurnCreates == { o \in AllOps : o.method = "POST" /\ o.body.sessionKey # Absent }

\* C11: a turn-end for a session key with no open turn pushes no record, raises
\* nothing and changes no open span (nor the ledger) of any session.
C11_UnmatchedTurnEndIgnored ==
  [][\A k \in CtxSessionKeys, ok \in Successes :
       (AgentEnd(k, NoMessages, ok) /\ SessionKeyOf(k) \notin DOMAIN activeAgentRuns) =>
         (UNCHANGED <<clientVars, tracerVars>> /\ ~raised')]_vars

\* a turn-end came for a session that never had a turn, while the other
\* session's turn is open
C11_Witness ==
  /\ ev.kind = "agent_end"
  /\ \A c \in TurnCreates : c.body.sessionKey # Some(ev.sessionKey)
  /\ activeAgentRuns # EmptyMap
  /\ TurnPatches = {}

\* C19: a turn-start with a missing or empty prompt creates no span, pushes no
\* record and leaves every open turn (that of its own session too) as it was.
C19_EmptyPromptIsNoOp ==
  [][\A k \in CtxSessionKeys, p \in Prompts :
       (BeforeAgentStart(k, p) /\ (p = Absent \/ Get(p) = <<>>)) =>
         (UNCHANGED <<clientVars, tracerVars, usedIds>> /\ ~raised')]_vars

\* a turn-start without prompt came for a session whose turn is open, after the
\* other session's turn was started
C19_Witness ==
  /\ ev.kind = "before_agent_start"
  /\ nOps = 2
  /\ ev.sessionKey \in DOMAIN activeAgentRuns
  /\ LastPushed \in TurnCreates
  /\ LastPushed.body.sessionKey # Some(ev.sessionKey)

\* the turn spans of a session that are open: created, and no update record
\* (which carries the end time) was emitted for them
OpenTurnSpans(sessionKey) ==
  { c \in TurnCreates :
      /\ c.body.sessionKey = Some(sessionKey)
      /\ \A u \in AllOps : u.method = "PATCH" => u.body.id # c.body.id }

\* C20: at most one turn span is open per session key at any time; a turn
\* superseded by a new turn-start does not stay open next to the new one.
C20_OneOpenTurnPerSession ==
  \A k \in CtxSessionKeys : Cardinality(OpenTurnSpans(SessionKeyOf(k))) <= 1

----------------------------------------------------------------------------
(* C12, C13: ordering keys, under SpecOrder and SpecKeys *)

\* the characters of ordering keys, in code unit order
KeyAlphabet ==
  <<".", "0", "1", "2", "3", "4", "5", "6", "7", "8", "9", "T", "Z",
    "a", "b", "c", "d", "e", "f", "t">>

CodeUnit(c) == CHOOSE i \in DOMAIN KeyAlphabet : KeyAlphabet[i] = c

RECURSIVE StrLess(_, _)
\* a < b for strings, compared code unit by code unit
StrLess(a, b) ==
  IF b = <<>> THEN FALSE
  ELSE IF a = <<>> THEN TRUE
  ELSE IF Head(a) # Head(b) THEN CodeUnit(Head(a)) < CodeUnit(Head(b))
  ELSE StrLess(Tail(a), Tail(b))

\* the ordering key of the span with this id, from its create record
KeyOf(id) == (CHOOSE o \in AllOps : o.method = "POST" /\ o.body.id = id).body.dotted_order

\* C12: of two children of one parent span, the one created first (at an equal
\* or earlier clock reading) has the smaller ordering key, and both keys start
\* with the parent's key followed by a dot.
C12_SiblingKeysAscend ==
  \A c1, c2 \in ToolCreates :
    (c1.body.parent_run_id # Absent /\ c1.body.parent_run_id = c2.body.parent_run_id
       /\ c1.n < c2.n) =>
      /\ StartsWith(c1.body.dotted_order, KeyOf(Get(c1.body.parent_run_id)) \o <<".">>)
      /\ StartsWith(c2.body.dotted_order, KeyOf(Get(c2.body.parent_run_id)) \o <<".">>)
      /\ StrLess(c1.body.dotted_order, c2.body.dotted_order)

\* C13: all records emitted for a span, its create record and its update
\* record, carry the same ordering key and the same trace id, whatever events
\* come between the span's start and its end.
C13_KeyNeverChanges ==
  \A c, u \in AllOps :
    (c.method = "POST" /\ u.method = "PATCH" /\ c.body.id = u.body.id) =>
      /\ c.body.dotted_order = u.body.dotted_order
      /\ c.body.trace_id = u.body.trace_id

----------------------------------------------------------------------------
(* C14, C17: recordLlmCall and the identity it resolves, under SpecLedger *)

\* C14: no operation of the run registry lets an error escape to its caller,
\* whatever the payload.
C14_NoErrorEscapes == ~raised

\* the prefix table of the identity resolution, in order
PrefixTable ==
  << <<<<"c", "l", "a", "u", "d", "e">>, <<"a", "n", "t", "h", "r", "o", "p", "i", "c">>>>,
     <<<<"g", "p", "t", "-">>, <<"o", "p", "e", "n", "a", "i">>>>,
     <<<<"o", "1">>, <<"o", "p", "e", "n", "a", "i">>>>,
     <<<<"o", "3">>, <<"o", "p", "e", "n", "a", "i">>>>,
     <<<<"g", "e", "m", "i", "n", "i">>, <<"g", "o", "o", "g", "l", "e">>>>,
     <<<<"g", "l", "m">>, <<"z", "a", "i">>>>,
     <<<<"k", "i", "m", "i">>, <<"k", "i", "m", "i">>>> >>

HasPrefix(str, pre) ==
  Len(pre) <= Len(str) /\ \A i \in 1..Len(pre) : str[i] = pre[i]

\* the identity the three rules give, in their order of precedence; a provider
\* is supplied when it is present and not the empty string
Identity(model, provider) ==
  LET slashes == { i \in 1..Len(model) : model[i] = "/" }
      rows == { r \in DOMAIN PrefixTable : HasPrefix(model, PrefixTable[r][1]) }
  IN  IF provider # {} /\ provider # {<<>>}
      THEN [provider |-> CHOOSE v \in provider : TRUE, model |-> model]
      ELSE IF slashes # {}
      THEN LET first == CHOOSE i \in slashes : \A j \in slashes : i <= j
           IN  [provider |-> SubSeq(model, 1, first - 1),
                model |-> SubSeq(model, first + 1, Len(model))]
      ELSE IF rows # {}
      THEN [provider |-> PrefixTable[CHOOSE r \in rows : \A q \in rows : r <= q][2],
            model |-> model]
      ELSE [provider |-> <<"u", "n", "k", "n", "o", "w", "n">>, model |-> model]

----------------------------------------------------------------------------
(* C15, C16: registration and the service's lifecycle, under SpecLifecycle *)

\* C15: whenever the service is running, after a restart too, the callback
\* slot is installed, and whenever the service has stopped it is unset.
C15_SlotFollowsService ==
  /\ svc = "running" => slot
  /\ svc = "stopped" => ~slot

\* register() found no API key
NoCredential == ev.kind = "register" /\ ev.id = <<>>

\* C16: with no credential at startup register() returns without error and
\* nothing exists: no hook or service, no slot, no timer, no queue; no record
\* is ever enqueued or sent, no step of the plugin is ever taken.
C16_NoCredentialDisables ==
  /\ [](NoCredential =>
          /\ ~HooksRegistered /\ ~slot /\ ~timer /\ ~raised
          /\ queue = <<>> /\ requests = <<>> /\ nOps = 0
          /\ activeAgentRuns = EmptyMap /\ activeToolRuns = EmptyMap)
  /\ [][~NoCredential]_vars

\* register() returned with no credential
C16_Witness == NoCredential /\ svc = "disabled" /\ ~ENABLED NextLifecycle

----------------------------------------------------------------------------
(* C18: the tags of a turn span, under SpecTags *)

\* the source categories, in their priority
Sources == <<<<"c", "r", "o", "n">>, <<"d", "i", "s", "c", "o", "r", "d">>, <<"t", "e", "l", "e", "g", "r", "a", "m">>, <<"s", "l", "a", "c", "k">>>>

\* the segments of a session key
Segments(key) == Split(key, ":")

\* the segment that follows the first segment equal to name (none: empty set)
SegmentAfter(key, name) ==
  LET segs == Segments(key)
      at == { i \in DOMAIN segs : segs[i] = name }
      first == CHOOSE i \in at : \A j \in at : i <= j
  IN  IF at = {} \/ first + 1 \notin DOMAIN segs \/ segs[first + 1] = <<>>
      THEN {} ELSE {segs[first + 1]}

\* the one category that applies to a key: the first in priority order that is
\* a segment of the key (0: none)
SourceOf(key) ==
  LET named == { r \in DOMAIN Sources : Sources[r] \in Range(Segments(key)) }
  IN  IF named = {} THEN 0 ELSE CHOOSE r \in named : \A q \in named : r <= q

\* the tags starting with a prefix
TagsWith(tags, prefix) == { t \in Range(tags) : HasPrefix(t, prefix) }

\* C18: the tags of a turn span name exactly one source category, the first of
\* cron, discord, telegram, slack that is a segment of the session key, or none
\* when none is; cron comes with job:<segment after cron> and never with a
\* channel tag, discord with channel:<segment after channel> and never with a
\* job tag, each when that segment exists; telegram, slack and no source come
\* with neither; extraction raises nothing.
C18_OneSourceByPriority ==
  /\ ~raised
  /\ \A c \in TurnCreates :
       LET key == CHOOSE k \in c.body.sessionKey : TRUE
           tags == c.body.tags
           src == SourceOf(key)
       IN  /\ Range(tags) \cap Range(Sources) = (IF src = 0 THEN {} ELSE {Sources[src]})
           /\ src # 0 => tags[1] = Sources[src]
           /\ TagsWith(tags, <<"j", "o", "b", ":">>) =
                (IF src = 1 THEN { <<"j", "o", "b", ":">> \o j : j \in SegmentAfter(key, <<"c", "r", "o", "n">>) } ELSE {})
           /\ TagsWith(tags, <<"c", "h", "a", "n", "n", "e", "l", ":">>) =
                (IF src = 2 THEN { <<"c", "h", "a", "n", "n", "e", "l", ":">> \o j : j \in SegmentAfter(key, <<"c", "h", "a", "n", "n", "e", "l">>) } ELSE {})

\* a key naming cron and discord got cron and its job, and a discord key got
\* its channel
C18_Witness ==
  /\ \E c \in TurnCreates :
       /\ <<"d", "i", "s", "c", "o", "r", "d">> \in Range(Segments(CHOOSE k \in c.body.sessionKey : TRUE))
       /\ Len(c.body.tags) >= 2
       /\ SubSeq(c.body.tags, 1, 2) = <<<<"c", "r", "o", "n">>, <<"j", "o", "b", ":">> \o <<"j">>>>
  /\ \E c \in TurnCreates :
       /\ Len(c.body.tags) >= 2
       /\ SubSeq(c.body.tags, 1, 2) = <<<<"d", "i", "s", "c", "o", "r", "d">>, <<"c", "h", "a", "n", "n", "e", "l", ":">> \o <<"9">>>>

----------------------------------------------------------------------------
(* C21, C29: the ledger and the shared map, under SpecTracer *)

\* this step opened a turn span for the session: a new entry, or another run
\* in the place of the entry that was there
TurnOpens(sessionKey) ==
  /\ sessionKey \in DOMAIN activeAgentRuns'
  /\ \/ sessionKey \notin DOMAIN activeAgentRuns
     \/ activeAgentRuns'[sessionKey].runId # activeAgentRuns[sessionKey].runId

\* this step was a turn-end for the session
TurnEnds(sessionKey) == ev'.kind = "agent_end" /\ ev'.sessionKey = sessionKey

\* C21: the update record of a turn takes its identity and model list from the
\* session's ledger, and the ledger holds only what was recorded while the turn
\* was open: it is empty when a turn span opens, and empty after every turn-end
\* for the session, matched or not, whatever the outcome.
C21_LedgerHoldsOnlyOpenTurn ==
  [][\A k \in SessionKeys :
       /\ TurnOpens(k) => Ledger(k)' = <<>>
       /\ TurnEnds(k) => Ledger(k)' = <<>>]_vars

\* the pending model-call entries of the shared map: the keys `llm:${traceId}`
PendingCalls(runs) == { k \in DOMAIN runs : HasPrefix(k, LlmKey(<<>>)) }

\* the open tool spans of the shared map
OpenTools(runs) == DOMAIN runs \ PendingCalls(runs)

\* C29: a tool-end event, whatever call id it carries, leaves every pending
\* model-call entry in the map and emits no record for it; a model-call event,
\* whatever its trace id, leaves every open tool span in the map as it was.
C29_ToolsAndCallsApart ==
  [][/\ ev'.kind = "after_tool_call" =>
          /\ PendingCalls(activeToolRuns') = PendingCalls(activeToolRuns)
          /\ \A k \in PendingCalls(activeToolRuns) :
               /\ activeToolRuns'[k] = activeToolRuns[k]
               /\ nOps' # nOps => LastPushed'.body.id # activeToolRuns[k].runId
     /\ ev'.kind \in {"llm_start", "llm_end", "llm_error"} =>
          /\ OpenTools(activeToolRuns') = OpenTools(activeToolRuns)
          /\ \A k \in OpenTools(activeToolRuns) : activeToolRuns'[k] = activeToolRuns[k]]_vars

----------------------------------------------------------------------------
(* C22: model-call events and the ledger, under SpecKeys *)

\* this step was a terminal model-call event: it emitted the call's record
TerminalCall == ev'.kind \in {"llm_end", "llm_error"} /\ nOps' = nOps + 1

\* C22: a terminal model-call event (finished or failed) that arrives while a
\* turn is open appends one identity to the ledger of an open turn.
C22_TerminalCallEntersLedger ==
  [][(TerminalCall /\ DOMAIN activeAgentRuns # {}) =>
       \E k \in DOMAIN activeAgentRuns : Len(Ledger(k)') = Len(Ledger(k)) + 1]_vars

----------------------------------------------------------------------------
(* C23: the identity of a closed turn, under SpecModels *)

\* this step closed the session's turn span: it emitted the update record
TurnCloses(sessionKey) == TurnEnds(sessionKey) /\ nOps' = nOps + 1

\* the place of a string's first occurrence in a list
FirstAt(strs, x) ==
  CHOOSE i \in DOMAIN strs : strs[i] = x /\ \A j \in 1..(i - 1) : strs[j] # x

\* C23: the update record of a closed turn carries as its identity the last
\* entry of the session's ledger; when the ledger held more than one distinct
\* provider/model pair the record lists every distinct "provider/model" string
\* once, in the order of first occurrence; when the ledger was empty the record
\* carries no identity, no list and no identity tag.
C23_DominantIsLastRecorded ==
  [][\A k \in SessionKeys : TurnCloses(k) =>
       LET ledger == Ledger(k)
           strs == [i \in DOMAIN ledger |-> ledger[i].provider \o <<"/">> \o ledger[i].model]
           patch == LastPushed'.body
           list == patch.all_models
       IN  /\ ledger = <<>> => patch.model = Absent /\ list = <<>> /\ patch.tags = <<>>
           /\ ledger # <<>> => patch.model = Some(ledger[Len(ledger)])
           /\ Cardinality(Range(strs)) > 1 =>
                /\ Range(list) = Range(strs)
                /\ Len(list) = Cardinality(Range(strs))
                /\ \A i, j \in DOMAIN list :
                     i < j => FirstAt(strs, list[i]) < FirstAt(strs, list[j])]_vars

\* a turn closed on a ledger of three entries, the last a repeat of the first:
\* two strings are listed and the identity is the one listed first
C23_Witness ==
  \E p \in TurnPatches :
    /\ Len(p.body.all_models) = 2
    /\ p.body.model # Absent
    /\ Get(p.body.model).provider \o <<"/">> \o Get(p.body.model).model = p.body.all_models[1]

\* a turn closed on an empty ledger
C23_WitnessEmpty ==
  \E p \in TurnPatches : p.body.model = Absent /\ p.body.all_models = <<>>

----------------------------------------------------------------------------
(* C24: the tags of a closed turn, under SpecTurnTags *)

\* C24: the update record of a turn span carries every tag the extractor
\* computes from the turn's session key and the prompt the turn started with.
C24_UpdateCarriesExtractedTags ==
  \A p \in TurnPatches, c \in TurnCreates :
    c.body.id = p.body.id =>
      Range(ExtractTags(Get(c.body.sessionKey), Get(c.body.prompt))) \subseteq Range(p.body.tags)

----------------------------------------------------------------------------
(* C25: model-call events, under SpecCalls *)

\* C25: a started event emits no record and opens the entry of its trace id
\* with the time, the ordering key and the input of the event; the entry stays
\* as it is until a model-call event of its trace id; a terminal event emits
\* one create record, complete with its end time, and leaves no entry: with an
\* entry the record has the entry's start time, ordering key and input, without
\* one it starts and ends now and its input is "(not captured)".
C25_CallRecordPairsWithStart ==
  [][/\ \A e \in LlmEvents : EngramTrace(e) =>
          LET key == LlmKey(e.traceId)
              now == IsoTime(clock)
              record == LastPushed'
          IN  IF e.kind = "llm_start"
              THEN /\ nOps' = nOps
                   /\ key \in DOMAIN activeToolRuns'
                   /\ activeToolRuns'[key].startTime = now
                   /\ activeToolRuns'[key].dottedOrder = MakeDottedOrder(clock, e.traceId, Absent)
                   /\ activeToolRuns'[key].input = e.input
              ELSE /\ nOps' = nOps + 1
                   /\ key \notin DOMAIN activeToolRuns'
                   /\ record.method = "POST"
                   /\ record.body.id = e.traceId
                   /\ record.body.end_time = Some(now)
                   /\ IF key \in DOMAIN activeToolRuns
                      THEN /\ record.body.start_time = Some(activeToolRuns[key].startTime)
                           /\ record.body.dotted_order = activeToolRuns[key].dottedOrder
                           /\ activeToolRuns[key].input # Absent =>
                                record.body.prompt = activeToolRuns[key].input
                      ELSE /\ record.body.start_time = Some(now)
                           /\ record.body.dotted_order = MakeDottedOrder(clock, e.traceId, Absent)
                           /\ record.body.prompt = Some(NotCaptured)
     /\ \A key \in PendingCalls(activeToolRuns) :
          (key \notin DOMAIN activeToolRuns' \/ activeToolRuns'[key] # activeToolRuns[key]) =>
            \E e \in LlmEvents : LlmKey(e.traceId) = key /\ EngramTrace(e)]_vars

----------------------------------------------------------------------------
(* C26: callbacks and the network, under SpecPipeline *)

\* the network calls that have not returned
Outstanding == { i \in DOMAIN requests : requests[i].state = "pending" }

\* C26: while network calls are outstanding, every hook can run; and a step
\* that enqueues a record ends with the record in the buffer or in the request
\* it issued, that request still outstanding and the earlier requests as they
\* were: the callback returned without waiting for any of them.
C26_CallbacksNeverWait ==
  /\ [](Outstanding # {} =>
          /\ ENABLED BeforeToolCall(Absent)
          /\ ENABLED BeforeAgentStart(Absent, Some(<<"h", "i">>))
          /\ ENABLED AgentEnd(Absent, NoMessages, TRUE)
          /\ \A c \in CallIds : ENABLED AfterToolCall(c, Absent))
  /\ [][nOps' = nOps + 1 =>
          /\ Len(requests') \in {Len(requests), Len(requests) + 1}
          /\ \A i \in DOMAIN requests : requests'[i] = requests[i]
          /\ Outstanding \subseteq Outstanding'
          /\ IF Len(requests') = Len(requests)
             THEN LastPushed' \in Range(queue')
             ELSE /\ LastPushed' \in OpsOf(requests'[Len(requests')])
                  /\ Len(requests') \in Outstanding']_vars

\* a hook enqueued a record while two network calls were outstanding
C26_Witness ==
  /\ ev.kind \in {"before_agent_start", "agent_end", "before_tool_call", "after_tool_call"}
  /\ Cardinality(Outstanding) >= 2
  /\ queue # <<>>
  /\ LastPushed \in Range(queue)

----------------------------------------------------------------------------
(* C27: the order of the records of a span, under SpecPipeline *)

\* where a pushed record is: the number of the request that took it, in the
\* order the requests were issued; one past the last request while it is
\* still in the buffer
BatchOf(o) ==
  IF o \in Range(queue) THEN Len(requests) + 1
  ELSE CHOOSE i \in DOMAIN requests : o \in OpsOf(requests[i])

\* the create records of turn and tool spans
SpanCreates == TurnCreates \cup ToolCreates

\* the update records of the span a create record opened
UpdatesOf(c) == { o \in AllOps : o.method = "PATCH" /\ o.body.id = c.body.id }

\* C27: the update record of a turn or tool span was pushed after the span's
\* create record, and it left the buffer in the same batch as the create
\* record or in a batch whose request was issued later; every update record
\* has its create record; within the buffer the records keep the order in
\* which they were pushed.
C27_CreateLeavesBeforeUpdate ==
  /\ \A c \in SpanCreates : \A u \in UpdatesOf(c) :
       /\ c.n < u.n
       /\ BatchOf(c) <= BatchOf(u)
  /\ \A u \in AllOps : u.method = "PATCH" => \E c \in SpanCreates : u \in UpdatesOf(c)
  /\ \A i, j \in DOMAIN queue : i < j => queue[i].n < queue[j].n

\* a turn span whose create record went out with one request and whose update
\* record went out with a later one, a tool span's create record between them
C27_Witness ==
  \E c \in TurnCreates : \E u \in UpdatesOf(c) : \E t \in ToolCreates :
    /\ BatchOf(c) < BatchOf(u)
    /\ BatchOf(u) <= Len(requests)
    /\ c.n < t.n /\ t.n < u.n

\* a span whose two records went out in one batch
C27_WitnessSameBatch ==
  \E c \in SpanCreates : \E u \in UpdatesOf(c) :
    BatchOf(c) = BatchOf(u) /\ BatchOf(u) <= Len(requests)

----------------------------------------------------------------------------
(* C28: every record is sent, under SpecPipelineFair *)

\* the record pushed n-th is in the buffer
InBuffer(n) == \E i \in DOMAIN queue : queue[i].n = n

\* the record pushed n-th is in the batch of a request that was issued
InRequest(n) == \E i \in DOMAIN requests : \E o \in OpsOf(requests[i]) : o.n = n

====
